---- MODULE Spec2Model ----
(***************************************************************************)
(* A model of openml/datasets/dataset.py (class OpenMLDataset): the ARFF   *)
(* parser, the feather/pickle cache manager, get_data and                  *)
(* get_features_by_type.                                                   *)
(*                                                                         *)
(* Python values are tagged tuples: <<"None">>, <<"nan">>, <<"num", n>>,   *)
(* <<"str", chars>>, <<"bool", b>>.  A Python str is a sequence of         *)
(* one-character strings, so that lower(), capitalize() and split(',')     *)
(* are computed character by character.                                    *)
(***************************************************************************)
EXTENDS Integers, Sequences, FiniteSets, TLC

VARIABLES
    raw,            \* the ARFF file at data_file and the server metadata it came with
    bits,           \* pointer width of the running interpreter (8 * struct.calcsize("P"))
    feather_file,   \* contents of data_file with '.arff' replaced by '.feather'
    pickle_file,    \* contents of data_file with '.arff' replaced by '.pkl.py3'
    nan_as_int,     \* what ndarray.astype(int) makes of nan on this build
    ds,             \* the OpenMLDataset objects of the process, by slot
    builders,       \* other processes inside _create_pickle_in_cache on data_file
    last            \* observation of the most recent operation

vars == <<raw, bits, feather_file, pickle_file, nan_as_int, ds, builders, last>>

----------------------------------------------------------------------------
(* Python values *)

None == <<"None">>
NaN == <<"nan">>
Num(n) == <<"num", n>>
Str(s) == <<"str", s>>
Bool(b) == <<"bool", b>>

IsNum(v) == v[1] = "num"

\* Sequence helpers
SeqToSet(s) == {s[i] : i \in 1..Len(s)}

RECURSIVE SelectIdx(_, _)
\* the increasing sequence of the positions of mask that hold TRUE
SelectIdx(mask, i) ==
    IF i > Len(mask) THEN <<>>
    ELSE IF mask[i] THEN <<i>> \o SelectIdx(mask, i + 1)
    ELSE SelectIdx(mask, i + 1)

\* [x for x, k in zip(s, mask) if k]; zip stops at the shorter sequence
Compress(s, mask) ==
    LET n == IF Len(s) < Len(mask) THEN Len(s) ELSE Len(mask)
        idx == SelectIdx(SubSeq(mask, 1, n), 1)
    IN  [k \in 1..Len(idx) |-> s[idx[k]]]

Negate(mask) == [i \in 1..Len(mask) |-> ~mask[i]]

CountTrue(mask) == Len(SelectIdx(mask, 1))

----------------------------------------------------------------------------
(* str.lower(), str.capitalize(), str.split(',') *)

LowerChar(c) ==
    CASE c = "T" -> "t" [] c = "R" -> "r" [] c = "U" -> "u" [] c = "E" -> "e"
      [] c = "F" -> "f" [] c = "A" -> "a" [] c = "L" -> "l" [] c = "S" -> "s"
      [] OTHER -> c

UpperChar(c) ==
    CASE c = "t" -> "T" [] c = "r" -> "R" [] c = "u" -> "U" [] c = "e" -> "E"
      [] c = "f" -> "F" [] c = "a" -> "A" [] c = "l" -> "L" [] c = "s" -> "S"
      [] OTHER -> c

Lower(s) == [i \in 1..Len(s) |-> LowerChar(s[i])]

Capitalize(s) == [i \in 1..Len(s) |-> IF i = 1 THEN UpperChar(s[i]) ELSE LowerChar(s[i])]

RECURSIVE SplitComma(_, _)
\* s.split(','): cur is the piece being read
SplitComma(s, cur) ==
    IF s = <<>> THEN <<cur>>
    ELSE IF Head(s) = "," THEN <<cur>> \o SplitComma(Tail(s), <<>>)
    ELSE SplitComma(Tail(s), Append(cur, Head(s)))

----------------------------------------------------------------------------
(* Outcomes: a Python call either returns or raises.  An exception is the *)
(* class raised and the place in dataset.py that raises it.               *)

Err(exc, at) == [exc |-> exc, at |-> at]
NoErr == Err("none", "")

NoData == [kind |-> "nodata"]

ParseFail(e) == [err |-> e, X |-> NoData, categorical |-> <<>>, attribute_names |-> <<>>]
ParseOk(X, categorical, names) ==
    [err |-> NoErr, X |-> X, categorical |-> categorical, attribute_names |-> names]

----------------------------------------------------------------------------
(* Column Type Inference, _parse_data_from_arff lines 328-380 *)

\* isinstance(type_, list): a nominal attribute declares its labels
IsList(type_) == type_.tag = "NOMINAL"

ARFF_DTYPES_TO_PD_DTYPE ==
    [t \in {"INTEGER", "REAL", "NUMERIC", "STRING"} |->
        CASE t = "INTEGER" -> "integer"
          [] t = "REAL" -> "floating"
          [] t = "NUMERIC" -> "floating"
          [] t = "STRING" -> "string"]

\* a faulty 'True' for C10: the normalized label is never equal to it
TrueStrLower == <<"t", "r", "u", "e">>

TrueStr == <<"T", "r", "u", "e">>
FalseStr == <<"F", "a", "l", "s", "e">>

\* the dtype, categorical flag and category list of one attribute
InferDtype(type_) ==
    IF IsList(type_)
    THEN LET labels == type_.labels
             type_norm == [i \in 1..Len(labels) |-> Capitalize(Lower(labels[i]))]
         IN  IF Len(labels) = 2 /\ {TrueStr, FalseStr} = SeqToSet(type_norm)
             THEN [categorical |-> TRUE, dtype |-> "boolean",
                   categories |-> [i \in 1..Len(labels) |-> Bool(type_norm[i] = TrueStr)]]
             ELSE [categorical |-> TRUE, dtype |-> "categorical",
                   categories |-> [i \in 1..Len(labels) |-> Str(labels[i])]]
    ELSE [categorical |-> FALSE, dtype |-> ARFF_DTYPES_TO_PD_DTYPE[type_.tag],
          categories |-> <<>>]

----------------------------------------------------------------------------
(* Categorical Unpacker, _unpack_categories lines 559-570 *)

IsDigit(c) == c \in {"0", "1", "2", "3", "4", "5", "6", "7", "8", "9"}

DigitVal(c) ==
    CASE c = "0" -> 0 [] c = "1" -> 1 [] c = "2" -> 2 [] c = "3" -> 3 [] c = "4" -> 4
      [] c = "5" -> 5 [] c = "6" -> 6 [] c = "7" -> 7 [] c = "8" -> 8 [] c = "9" -> 9

IsNumeral(s) == Len(s) > 0 /\ \A i \in 1..Len(s) : IsDigit(s[i])

RECURSIVE NumeralVal(_)
NumeralVal(s) ==
    IF s = <<>> THEN 0 ELSE 10 * NumeralVal(SubSeq(s, 1, Len(s) - 1)) + DigitVal(s[Len(s)])

\* int(x): "ok" with the integer, or the exception class int() raises
PyInt(x) ==
    CASE x[1] = "num" -> [exc |-> "none", val |-> x[2]]
      [] x[1] = "bool" -> [exc |-> "none", val |-> IF x[2] THEN 1 ELSE 0]
      [] x[1] = "None" -> [exc |-> "TypeError", val |-> 0]
      [] x[1] = "nan" -> [exc |-> "ValueError", val |-> 0]
      [] x[1] = "str" -> IF IsNumeral(x[2]) THEN [exc |-> "none", val |-> NumeralVal(x[2])]
                         ELSE [exc |-> "ValueError", val |-> 0]

\* categories[k] of a Python list: a negative k counts from the end
ListIndexOk(categories, k) == -Len(categories) <= k /\ k < Len(categories)
ListItem(categories, k) == IF k >= 0 THEN categories[k + 1] ELSE categories[Len(categories) + k + 1]

\* one iteration of the loop of lines 562-566: the label, nan, or IndexError
UnpackOne(x, categories) ==
    LET k == PyInt(x)
    IN  IF k.exc # "none" THEN [exc |-> "none", val |-> NaN]
        ELSE IF ListIndexOk(categories, k.val)
             THEN [exc |-> "none", val |-> ListItem(categories, k.val)]
             ELSE [exc |-> "IndexError", val |-> NaN]

\* a pandas column: plain values, or an ordered categorical over categories
Column(name, category, categories, values) ==
    [name |-> name, category |-> category, ordered |-> category,
     categories |-> categories, values |-> values]

HasDuplicates(s) == \E i, j \in 1..Len(s) : i < j /\ s[i] = s[j]

_unpack_categories(name, series, categories) ==
    LET col == [i \in 1..Len(series) |-> UnpackOne(series[i], categories)]
    IN  IF \E i \in 1..Len(series) : col[i].exc # "none"
        THEN [err |-> Err("IndexError", "_unpack_categories"), col |-> NoData]
        ELSE IF HasDuplicates(categories)
        THEN [err |-> Err("ValueError", "pd.Categorical"), col |-> NoData]
        ELSE [err |-> NoErr,
              col |-> Column(name, TRUE, categories, [i \in 1..Len(series) |-> col[i].val])]

----------------------------------------------------------------------------
(* Raw Format Decoder, _get_arff lines 250-301 and                        *)
(* _parse_data_from_arff lines 303-403                                    *)

SetMax(S) == CHOOSE x \in S : \A y \in S : y <= x
SetMin(S) == CHOOSE x \in S : \A y \in S : x <= y

\* the size above which a file is refused on a runtime that is not 64-bit (line 280)
MaxFileBytes == 120000000

\* format.lower() on the format tags of the datasets
FormatLower(format) ==
    CASE format = "ARFF" -> "arff"
      [] format = "Sparse_ARFF" -> "sparse_arff"
      [] OTHER -> format

\* what arff.ArffDecoder().decode returns for the file: its schema and its
\* rows (dense: a list of rows; COO: the lists of values, rows and columns),
\* or the exception raised before the file is read
_get_arff(r, b) ==
    IF b # 64 /\ r.size > MaxFileBytes
    THEN [err |-> Err("NotImplementedError", "_get_arff:too_big"), attributes |-> <<>>, data |-> <<>>]
    ELSE IF FormatLower(r.format) \notin {"arff", "sparse_arff"}
    THEN [err |-> Err("ValueError", "_get_arff:unknown_format"), attributes |-> <<>>, data |-> <<>>]
    ELSE [err |-> NoErr, attributes |-> r.attributes, data |-> r.data]

\* pd.factorize(type_) of a list of label strings returns codes for any labels:
\* it raises no ValueError, so the except branch of lines 347-351 is not taken
FactorizeRaises(labels) == FALSE

\* a faulty check for C9: a string attribute of a sparse file is let through
AttributeCheckNominalOnly(r, attrs, i) ==
    IF IsList(attrs[i].type_) /\ FormatLower(r.format) = "sparse_arff"
          /\ FactorizeRaises(attrs[i].type_.labels)
    THEN Err("ValueError", "_parse_data_from_arff:categorical_not_numeric")
    ELSE NoErr

\* the exception of lines 341-358 for attribute i, if any
AttributeCheck(r, attrs, i) ==
    LET type_ == attrs[i].type_
    IN  IF IsList(type_) /\ FormatLower(r.format) = "sparse_arff"
        THEN IF FactorizeRaises(type_.labels)
             THEN Err("ValueError", "_parse_data_from_arff:categorical_not_numeric")
             ELSE NoErr
        ELSE IF type_.tag = "STRING" /\ FormatLower(r.format) = "sparse_arff"
        THEN Err("ValueError", "_parse_data_from_arff:string_in_sparse")
        ELSE NoErr

\* pd.DataFrame(rows, columns=names)[names[j]]: a column holding a number
\* is a float column, in which None is stored as nan
FrameColumn(rows, j) ==
    LET vals == [i \in 1..Len(rows) |-> rows[i][j]]
        numeric == \E i \in 1..Len(rows) : IsNum(vals[i])
    IN  [i \in 1..Len(rows) |-> IF numeric /\ vals[i] = None THEN NaN ELSE vals[i]]

\* lines 389-399: the frame with its categorical and boolean columns unpacked
UnpackIfCategory(name, inf, series) ==
    IF inf.dtype \in {"categorical", "boolean"}
    THEN _unpack_categories(name, series, inf.categories)
    ELSE [err |-> NoErr, col |-> Column(name, FALSE, <<>>, series)]

DenseColumn(attrs, rows, j) ==
    UnpackIfCategory(attrs[j].name, InferDtype(attrs[j].type_), FrameColumn(rows, j))

DataFrame(columns) == [kind |-> "dataframe", columns |-> columns]

\* lines 383-387: the COO triples as a compressed-row matrix whose shape is
\* the largest row and column index seen, plus one
CsrMatrix(shape, entries) == [kind |-> "csr", shape |-> shape, entries |-> entries]

SparseShape(coo) ==
    <<SetMax(SeqToSet(coo.rows)) + 1, SetMax(SeqToSet(coo.cols)) + 1>>

SparseFromCoo(coo) ==
    CsrMatrix(SparseShape(coo),
              {<<coo.rows[i], coo.cols[i], coo.values[i]>> : i \in 1..Len(coo.values)})

\* lines 382-403, once every column is unpacked
BuildDense(cols, categorical, attribute_names) ==
    IF \E j \in 1..Len(cols) : cols[j].err # NoErr
    THEN ParseFail(cols[SetMin({j \in 1..Len(cols) : cols[j].err # NoErr})].err)
    ELSE ParseOk(DataFrame([j \in 1..Len(cols) |-> cols[j].col]), categorical, attribute_names)

\* lines 328-403, given what the decoder returned
ParseDecoded(r, got) ==
    LET attrs == got.attributes
        n == Len(attrs)
        failing == {i \in 1..n : AttributeCheck(r, attrs, i) # NoErr}
        categorical == [i \in 1..n |-> InferDtype(attrs[i].type_).categorical]
        attribute_names == [i \in 1..n |-> attrs[i].name]
    IN  IF got.err # NoErr THEN ParseFail(got.err)
        ELSE IF failing # {} THEN ParseFail(AttributeCheck(r, attrs, SetMin(failing)))
        ELSE IF FormatLower(r.format) = "sparse_arff"
        THEN IF Len(got.data.rows) = 0
             THEN ParseFail(Err("ValueError", "_parse_data_from_arff:max_of_empty"))
             ELSE ParseOk(SparseFromCoo(got.data), categorical, attribute_names)
        ELSE BuildDense([j \in 1..n |-> DenseColumn(attrs, got.data, j)],
                        categorical, attribute_names)

_parse_data_from_arff(r, b) == ParseDecoded(r, _get_arff(r, b))

----------------------------------------------------------------------------
(* Cache Manager: the two cache files, _create_pickle_in_cache lines      *)
(* 405-460 and _load_data lines 462-495                                   *)

\* data_file and the two cache paths derived from it (lines 407-408)
ArffPath == Str(<<"d", ".", "a", "r", "f", "f">>)
PicklePath == Str(<<"d", ".", "p", "k", "l", ".", "p", "y", "3">>)
FeatherPath == Str(<<"d", ".", "f", "e", "a", "t", "h", "e", "r">>)

\* a file of the cache directory: absent, empty (truncated to zero length)
\* or holding what was written to it
AbsentFile == [state |-> "absent", content |-> NoData]
EmptyFile == [state |-> "empty", content |-> NoData]
WrittenFile(content) == [state |-> "written", content |-> content]

\* os.path.exists
Exists(file) == file.state # "absent"

\* pickle.dump of a tuple; pickle.load gives the tuple back, or raises
\* EOFError on a file of zero length
PickleDump(tuple) == WrittenFile(tuple)

\* open(path, "rb") and pickle.load(fh), unpacked into `arity` names
PickleLoad(file, arity) ==
    IF file.state = "absent"
    THEN [err |-> Err("FileNotFoundError", "open"), tuple |-> <<>>]
    ELSE IF file.state = "empty"
    THEN [err |-> Err("EOFError", "pickle.load"), tuple |-> <<>>]
    ELSE IF Len(file.content) # arity
    THEN [err |-> Err("ValueError", "unpack"), tuple |-> <<>>]
    ELSE [err |-> NoErr, tuple |-> file.content]

\* a faulty writer for C1: the snapshot loses the categorical dtype
FeatherWriteNoCategories(X) ==
    WrittenFile(DataFrame([j \in 1..Len(X.columns) |->
                              [X.columns[j] EXCEPT !.category = FALSE, !.ordered = FALSE]]))

\* feather.write_feather / feather.read_feather of a dense table
FeatherWrite(X) == WrittenFile(X)

FeatherRead(file) ==
    IF file.state = "absent"
    THEN [err |-> Err("FileNotFoundError", "read_feather"), data |-> NoData]
    ELSE [err |-> NoErr, data |-> file.content]

\* isinstance(data, pd.DataFrame) or scipy.sparse.issparse(data)
IsSparse(data) == data.kind = "csr"
IsUpToDate(data) == data.kind = "dataframe" \/ IsSparse(data)

\* what a call of _create_pickle_in_cache does: the exception it raises if
\* any, the two files and self.cache_format after it, the number of calls of
\* _parse_data_from_arff it made and the files it wrote
CreateResult(err, feather, pickle, cache_format, parses, wrote) ==
    [err |-> err, feather |-> feather, pickle |-> pickle,
     cache_format |-> cache_format, parses |-> parses, wrote |-> wrote]

\* a faulty writer for C11: the blob is written but the tag is kept
WriteCacheKeepTag(cache_format, feather, pickle, p) ==
    IF p.err # NoErr
    THEN CreateResult(p.err, feather, pickle, cache_format, 1, {})
    ELSE IF cache_format = "feather" /\ ~IsSparse(p.X)
    THEN CreateResult(NoErr, FeatherWrite(p.X),
                      PickleDump(<<p.categorical, p.attribute_names>>),
                      cache_format, 1, {"feather", "pickle"})
    ELSE CreateResult(NoErr, feather,
                      PickleDump(<<p.X, p.categorical, p.attribute_names>>),
                      cache_format, 1, {"pickle"})

\* a faulty writer for C13: writing the blob removes the snapshot file
WriteCacheDropSnapshot(cache_format, feather, pickle, p) ==
    IF p.err # NoErr
    THEN CreateResult(p.err, feather, pickle, cache_format, 1, {})
    ELSE IF cache_format = "feather" /\ ~IsSparse(p.X)
    THEN CreateResult(NoErr, FeatherWrite(p.X),
                      PickleDump(<<p.categorical, p.attribute_names>>),
                      cache_format, 1, {"feather", "pickle"})
    ELSE CreateResult(NoErr, AbsentFile,
                      PickleDump(<<p.X, p.categorical, p.attribute_names>>),
                      "pickle", 1, {"pickle"})

\* lines 443-460: the parsed triple is written to the cache
WriteCache(cache_format, feather, pickle, p) ==
    IF p.err # NoErr
    THEN CreateResult(p.err, feather, pickle, cache_format, 1, {})
    ELSE IF cache_format = "feather" /\ ~IsSparse(p.X)
    THEN CreateResult(NoErr, FeatherWrite(p.X),
                      PickleDump(<<p.categorical, p.attribute_names>>),
                      cache_format, 1, {"feather", "pickle"})
    ELSE CreateResult(NoErr, feather,
                      PickleDump(<<p.X, p.categorical, p.attribute_names>>),
                      "pickle", 1, {"pickle"})

\* lines 439-460: parse the arff and populate the cache
ParseAndWrite(cache_format, feather, pickle, r, b) ==
    WriteCache(cache_format, feather, pickle, _parse_data_from_arff(r, b))

\* lines 409-437: "return" the paths, "raise", or go on to "rebuild"
\* (the snapshot branch has no return after a successful read)
CheckSnapshot(meta) ==
    IF meta.err.exc = "EOFError" THEN [do |-> "return", err |-> NoErr]
    ELSE IF meta.err # NoErr THEN [do |-> "raise", err |-> meta.err]
    ELSE [do |-> "rebuild", err |-> NoErr]

CheckBlob(blob) ==
    IF blob.err.exc = "EOFError" THEN [do |-> "return", err |-> NoErr]
    ELSE IF blob.err # NoErr THEN [do |-> "raise", err |-> blob.err]
    ELSE IF IsUpToDate(blob.tuple[1]) THEN [do |-> "return", err |-> NoErr]
    ELSE [do |-> "rebuild", err |-> NoErr]

CheckCache(cache_format, feather, pickle) ==
    IF cache_format = "feather"
    THEN IF Exists(feather) THEN CheckSnapshot(PickleLoad(pickle, 2))
         ELSE [do |-> "rebuild", err |-> NoErr]
    ELSE IF Exists(pickle) THEN CheckBlob(PickleLoad(pickle, 3))
         ELSE [do |-> "rebuild", err |-> NoErr]

CreateAfterCheck(chk, cache_format, feather, pickle, r, b) ==
    IF chk.do = "rebuild" THEN ParseAndWrite(cache_format, feather, pickle, r, b)
    ELSE CreateResult(chk.err, feather, pickle, cache_format, 0, {})

_create_pickle_in_cache(cache_format, feather, pickle, r, b) ==
    CreateAfterCheck(CheckCache(cache_format, feather, pickle),
                     cache_format, feather, pickle, r, b)

\* lines 470-480: the triple read from the cache files per self.cache_format
ReadSnapshot(data, meta) ==
    IF data.err # NoErr THEN ParseFail(data.err)
    ELSE IF meta.err # NoErr THEN ParseFail(meta.err)
    ELSE ParseOk(data.data, meta.tuple[1], meta.tuple[2])

ReadBlob(blob) ==
    IF blob.err # NoErr THEN ParseFail(blob.err)
    ELSE ParseOk(blob.tuple[1], blob.tuple[2], blob.tuple[3])

ReadCache(cache_format, feather, pickle) ==
    IF cache_format = "feather"
    THEN ReadSnapshot(FeatherRead(feather), PickleLoad(pickle, 2))
    ELSE ReadBlob(PickleLoad(pickle, 3))

\* the warning of lines 482-489 is formatted with '%d' % self.dataset_id
WarningFormats(dataset_id) == dataset_id # None

\* what lines 470-495 did: the triple returned or the exception raised, the
\* number of parser calls, where the triple came from, and whether the read
\* of the cache files ended in EOFError
LoadResult(loaded, parses, source, eof) ==
    [loaded |-> loaded, parses |-> parses, source |-> source, eof |-> eof]

\* a faulty handler for C12: a missing cache file is answered by a parse
HandleReadFallback(got, dataset_id, r, b) ==
    IF got.err.exc \in {"EOFError", "FileNotFoundError"}
    THEN LoadResult(_parse_data_from_arff(r, b), 1, "arff", got.err.exc = "EOFError")
    ELSE LoadResult(got, 0, IF got.err = NoErr THEN "cache" ELSE "none", FALSE)

\* lines 481-495: the handlers of the try block
HandleRead(got, dataset_id, r, b) ==
    IF got.err.exc = "EOFError"
    THEN IF WarningFormats(dataset_id)
         THEN LoadResult(_parse_data_from_arff(r, b), 1, "arff", TRUE)
         ELSE LoadResult(ParseFail(Err("TypeError", "_load_data:warning")), 0, "none", TRUE)
    ELSE IF got.err.exc = "FileNotFoundError"
    THEN LoadResult(ParseFail(Err("ValueError", "_load_data:cannot_find_pickle")),
                    0, "none", FALSE)
    ELSE LoadResult(got, 0, IF got.err = NoErr THEN "cache" ELSE "none", FALSE)

\* a faulty load for C2: the cache files are not read, the raw file is parsed
LoadBypassingCache(cache_format, dataset_id, feather, pickle, r, b) ==
    LoadResult(_parse_data_from_arff(r, b), 1, "arff", FALSE)

\* lines 470-495 for an object whose cache paths are set: the triple
\* returned or the exception raised, and the number of parser calls
LoadFromCache(cache_format, dataset_id, feather, pickle, r, b) ==
    HandleRead(ReadCache(cache_format, feather, pickle), dataset_id, r, b)

\* the object after lines 464-468
WithPaths(self, cache_format) ==
    [self EXCEPT !.cache_format = cache_format, !.data_file = ArffPath,
                 !.data_pickle_file = PicklePath, !.data_feather_file = FeatherPath]

LoadOutcome(self, create, built, l) ==
    [self |-> self, create |-> create, built |-> built, loaded |-> l.loaded,
     parses |-> create.parses + l.parses, source |-> l.source, eof |-> l.eof]

\* lines 470-495 after the cache build c of lines 464-468
LoadAfterCreate(self, c, built, r, b) ==
    IF c.err # NoErr
    THEN LoadOutcome([self EXCEPT !.data_file = ArffPath], c, FALSE,
                     LoadResult(ParseFail(c.err), 0, "none", FALSE))
    ELSE LoadOutcome(WithPaths(self, c.cache_format), c, built,
                     LoadFromCache(c.cache_format, self.dataset_id, c.feather, c.pickle, r, b))

\* _load_data: the cache is built first when self.data_pickle_file is None
_load_data(self, feather, pickle, r, b) ==
    IF self.data_pickle_file = None
    THEN LoadAfterCreate(self,
                         _create_pickle_in_cache(self.cache_format, feather, pickle, r, b),
                         TRUE, r, b)
    ELSE LoadAfterCreate(self, CreateResult(NoErr, feather, pickle, self.cache_format, 0, {}),
                         FALSE, r, b)

----------------------------------------------------------------------------
(* Format Converter, _convert_array_format lines 497-557 *)

PyList(items) == <<"list", items>>
IsPyStr(v) == v[1] = "str"

Series(col) == [kind |-> "series", column |-> col]
NdArray(dtype, columns) == [kind |-> "ndarray", dtype |-> dtype, columns |-> columns]
NdArray1(dtype, values) == [kind |-> "ndarray1", dtype |-> dtype, values |-> values]
SparseDataFrame(names, matrix) == [kind |-> "sparsedf", names |-> names, matrix |-> matrix]
NoTarget == [kind |-> "None"]

\* position of v in categories, counted from 0; -1 when v is no category
RECURSIVE CodeOf(_, _, _)
CodeOf(v, categories, i) ==
    IF i > Len(categories) THEN -1
    ELSE IF categories[i] = v THEN i - 1
    ELSE CodeOf(v, categories, i + 1)

\* _encode_if_category: column.cat.codes as float32, the code -1 turned into nan
_encode_if_category(col) ==
    IF col.category
    THEN [i \in 1..Len(col.values) |->
            LET code == CodeOf(col.values[i], col.categories, 1)
            IN  IF code = -1 THEN NaN ELSE Num(code)]
    ELSE col.values

\* float(v) as np.asarray(..., dtype=np.float32) applies it to one cell
FloatOk(v) ==
    v[1] \in {"num", "nan", "None", "bool", "int_min"} \/ (v[1] = "str" /\ IsNumeral(v[2]))

ToFloat(v) ==
    CASE v[1] \in {"num", "int_min"} -> v
      [] v[1] = "bool" -> Num(IF v[2] THEN 1 ELSE 0)
      [] v[1] = "str" -> Num(NumeralVal(v[2]))
      [] OTHER -> NaN

AsFloat32(values) == [i \in 1..Len(values) |-> ToFloat(values[i])]

\* ndarray.astype(int): the value a nan is cast to is not defined by C; a
\* build gives the smallest integer or zero
IntMin == <<"int_min">>
NanIntChoices == {Num(0), IntMin}

AsType(values, dtype, nanInt) ==
    IF dtype = "int"
    THEN [i \in 1..Len(values) |-> IF values[i] = NaN THEN nanInt ELSE values[i]]
    ELSE values

PyOpenMLError == Err("PyOpenMLError", "_convert_array_format")

Converted(data) == [err |-> NoErr, data |-> data]
ConvertFail(err) == [err |-> err, data |-> NoData]

\* lines 539-545 for the encoded columns of a frame, and for one series
AsArray2(enc) ==
    IF \A j \in 1..Len(enc) : \A i \in 1..Len(enc[j]) : FloatOk(enc[j][i])
    THEN Converted(NdArray("float32", [j \in 1..Len(enc) |-> AsFloat32(enc[j])]))
    ELSE ConvertFail(PyOpenMLError)

AsArray1(enc) ==
    IF \A i \in 1..Len(enc) : FloatOk(enc[i])
    THEN Converted(NdArray1("float32", AsFloat32(enc)))
    ELSE ConvertFail(PyOpenMLError)

_convert_array_format(data, array_format, attribute_names) ==
    IF array_format = "array" /\ ~IsSparse(data)
    THEN CASE data.kind = "dataframe" ->
                AsArray2([j \in 1..Len(data.columns) |-> _encode_if_category(data.columns[j])])
           [] data.kind = "series" -> AsArray1(_encode_if_category(data.column))
           [] data.kind = "ndarray1" -> AsArray1(data.values)
           [] OTHER -> Converted(data)
    ELSE IF array_format = "dataframe"
    THEN IF IsSparse(data)
         THEN IF Len(attribute_names) # data.shape[2]
              THEN ConvertFail(Err("ValueError", "pd.SparseDataFrame"))
              ELSE Converted(SparseDataFrame(attribute_names, data))
         ELSE Converted(data)
    ELSE Converted(data)

----------------------------------------------------------------------------
(* Dataset Accessor, get_data lines 572-683 *)

\* data.iloc[:, mask]: the mask must have the frame's column count
DenseSelect(data, mask) ==
    IF Len(mask) # Len(data.columns)
    THEN [err |-> Err("IndexError", "iloc"), data |-> NoData]
    ELSE [err |-> NoErr, data |-> DataFrame(Compress(data.columns, mask))]

\* data[:, mask] of a csr matrix: the mask is turned into the indices of its
\* true entries, each of which must be a column of the matrix
SparseSelect(data, mask) ==
    LET idx == SelectIdx(mask, 1)
    IN  IF \E k \in 1..Len(idx) : idx[k] - 1 >= data.shape[2]
        THEN [err |-> Err("IndexError", "csr_getitem"), data |-> NoData]
        ELSE [err |-> NoErr,
              data |-> CsrMatrix(<<data.shape[1], Len(idx)>>,
                    {<<q[1][1], q[2] - 1, q[1][3]>> :
                        q \in {p \in data.entries \X (1..Len(idx)) : p[1][2] = idx[p[2]] - 1}})]

\* np.asarray(y.todense()).flatten() of a matrix of one column
DenseColumnOf(matrix) ==
    [i \in 1..matrix.shape[1] |->
        IF \E e \in matrix.entries : e[1] = i - 1 /\ e[2] = 0
        THEN (CHOOSE e \in matrix.entries : e[1] = i - 1 /\ e[2] = 0)[3]
        ELSE Num(0)]

\* lines 614-625
ToExclude(self, include_row_id, include_ignore_attribute) ==
    (IF ~include_row_id /\ self.row_id_attribute # None
     THEN IF IsPyStr(self.row_id_attribute) THEN <<self.row_id_attribute[2]>>
          ELSE self.row_id_attribute[2]
     ELSE <<>>)
    \o
    (IF ~include_ignore_attribute /\ self.ignore_attribute # None
     THEN IF IsPyStr(self.ignore_attribute) THEN <<self.ignore_attribute[2]>>
          ELSE self.ignore_attribute[2]
     ELSE <<>>)

InList(x, list) == \E i \in 1..Len(list) : list[i] = x

\* lines 645-649
TargetList(target) ==
    IF IsPyStr(target)
    THEN IF InList(",", target[2]) THEN SplitComma(target[2], <<>>) ELSE <<target[2]>>
    ELSE target[2]

GetDataResult(err, X, y, categorical, attribute_names) ==
    [err |-> err, X |-> X, y |-> y, categorical |-> categorical,
     attribute_names |-> attribute_names]
GetDataFail(err) == GetDataResult(err, NoData, NoData, <<>>, <<>>)

Select(data, mask) ==
    IF data.kind = "dataframe" THEN DenseSelect(data, mask) ELSE SparseSelect(data, mask)

\* lines 630-638: the columns, flags and names that keep selects
ExcludeBy(loaded, keep, sel) ==
    IF sel.err # NoErr THEN ParseFail(sel.err)
    ELSE ParseOk(sel.data, Compress(loaded.categorical, keep),
                 Compress(loaded.attribute_names, keep))

\* a faulty mask for C6: only the first excluded name is dropped
KeepMaskFirstOnly(attribute_names, to_exclude) ==
    [i \in 1..Len(attribute_names) |-> attribute_names[i] # to_exclude[1]]

KeepMask(attribute_names, to_exclude) ==
    [i \in 1..Len(attribute_names) |-> ~InList(attribute_names[i], to_exclude)]

\* lines 627-638: the loaded triple without the excluded attributes
Exclude(loaded, to_exclude) ==
    IF Len(to_exclude) = 0 THEN loaded
    ELSE ExcludeBy(loaded, KeepMask(loaded.attribute_names, to_exclude),
                   Select(loaded.X, KeepMask(loaded.attribute_names, to_exclude)))

\* lines 663-668: y as taken from the data
TargetColumn(ys, target_dtype, nanInt) ==
    IF ys.kind = "dataframe" THEN Series(ys.columns[1])
    ELSE NdArray1(target_dtype, AsType(DenseColumnOf(ys), target_dtype, nanInt))

\* line 680
CoerceForArray(y1, dataset_format, target_dtype, nanInt) ==
    IF dataset_format = "array"
    THEN NdArray1(target_dtype, AsType(y1.values, target_dtype, nanInt))
    ELSE y1

\* lines 675-681, given the converted X and y
FinishSplit(x, y1, categorical, attribute_names, dataset_format, target_dtype, nanInt) ==
    IF x.err # NoErr THEN GetDataFail(x.err)
    ELSE IF y1.err # NoErr THEN GetDataFail(y1.err)
    ELSE GetDataResult(NoErr, x.data,
                       CoerceForArray(y1.data, dataset_format, target_dtype, nanInt),
                       categorical, attribute_names)

\* lines 663-681, given the two column selections
ConvertSplit(xs, ys, categorical, attribute_names, dataset_format, target_dtype, nanInt) ==
    IF xs.err # NoErr THEN GetDataFail(xs.err)
    ELSE IF ys.err # NoErr THEN GetDataFail(ys.err)
    ELSE FinishSplit(_convert_array_format(xs.data, dataset_format, attribute_names),
                     _convert_array_format(TargetColumn(ys.data, target_dtype, nanInt),
                                           dataset_format, attribute_names),
                     categorical, attribute_names, dataset_format, target_dtype, nanInt)

\* lines 650-681, given the mask of the target columns
SplitBy(rem, targets, dataset_format, nanInt) ==
    IF CountTrue(targets) > 1
    THEN GetDataFail(Err("NotImplementedError", "get_data:targets"))
    ELSE IF Len(Compress(rem.categorical, targets)) = 0
    THEN GetDataFail(Err("IndexError", "get_data:target_categorical"))
    ELSE ConvertSplit(Select(rem.X, Negate(targets)), Select(rem.X, targets),
                      Compress(rem.categorical, Negate(targets)),
                      Compress(rem.attribute_names, Negate(targets)),
                      dataset_format,
                      IF Compress(rem.categorical, targets)[1] THEN "int" ELSE "float",
                      nanInt)

\* a faulty mask for C7: the first column is taken as the target
TargetMaskFirst(attribute_names, tl) ==
    [i \in 1..Len(attribute_names) |-> i = 1]

TargetMask(attribute_names, tl) ==
    [i \in 1..Len(attribute_names) |-> InList(attribute_names[i], tl)]

\* lines 644-681: the split of the remaining columns into X and y
SplitTarget(rem, target, dataset_format, nanInt) ==
    SplitBy(rem, TargetMask(rem.attribute_names, TargetList(target)), dataset_format, nanInt)

\* lines 640-643
WithoutTarget(conv, rem) ==
    IF conv.err # NoErr THEN GetDataFail(conv.err)
    ELSE GetDataResult(NoErr, conv.data, NoTarget, rem.categorical, rem.attribute_names)

\* lines 640-683, given the remaining columns
AfterExclude(rem, target, dataset_format, nanInt) ==
    IF rem.err # NoErr THEN GetDataFail(rem.err)
    ELSE IF target = None
    THEN WithoutTarget(_convert_array_format(rem.X, dataset_format, rem.attribute_names), rem)
    ELSE SplitTarget(rem, target, dataset_format, nanInt)

\* get_data after the load of line 612
get_data(self, loaded, target, include_row_id, include_ignore_attribute, dataset_format, nanInt) ==
    IF loaded.err # NoErr THEN GetDataFail(loaded.err)
    ELSE AfterExclude(Exclude(loaded, ToExclude(self, include_row_id, include_ignore_attribute)),
                      target, dataset_format, nanInt)

----------------------------------------------------------------------------
(* Feature Index, get_features_by_type lines 707-765 *)

\* OpenMLDataFeature.LEGAL_DATA_TYPES
LEGAL_DATA_TYPES == {"nominal", "numeric", "string", "date"}

OpenMLDataFeature(index, name, data_type) ==
    [index |-> index, name |-> name, data_type |-> data_type]

FeaturesResult(err, indices) == [err |-> err, indices |-> indices]

\* lines 746-751: the list to_exclude (the items of exclude as they are given,
\* then the ignore names, then the row id name)
FeaturesToExclude(self, exclude, exclude_ignore_attribute, exclude_row_id_attribute) ==
    (IF exclude # None THEN exclude[2] ELSE <<>>)
    \o (IF exclude_ignore_attribute /\ self.ignore_attribute # None
        THEN [k \in 1..Len(self.ignore_attribute[2]) |-> Str(self.ignore_attribute[2][k])]
        ELSE <<>>)
    \o (IF exclude_row_id_attribute /\ self.row_id_attribute # None
        THEN <<self.row_id_attribute>> ELSE <<>>)

\* lines 753-765: the loop over self.features, from the feature at position k
RECURSIVE FeatureLoop(_, _, _, _, _, _)
FeatureLoop(features, k, offset, to_exclude, data_type, result) ==
    IF k > Len(features) THEN result
    ELSE IF InList(Str(features[k].name), to_exclude)
    THEN FeatureLoop(features, k + 1, offset + 1, to_exclude, data_type, result)
    ELSE IF features[k].data_type = data_type
    THEN FeatureLoop(features, k + 1, offset, to_exclude, data_type,
                     Append(result, features[k].index - offset))
    ELSE FeatureLoop(features, k + 1, offset, to_exclude, data_type, result)

get_features_by_type(self, features, data_type, exclude, exclude_ignore_attribute, exclude_row_id_attribute) ==
    IF data_type \notin LEGAL_DATA_TYPES
    THEN FeaturesResult(Err("TypeError", "get_features_by_type:data_type"), <<>>)
    ELSE IF self.ignore_attribute # None /\ self.ignore_attribute[1] # "list"
    THEN FeaturesResult(Err("TypeError", "get_features_by_type:ignore_attribute"), <<>>)
    ELSE IF self.row_id_attribute # None /\ ~IsPyStr(self.row_id_attribute)
    THEN FeaturesResult(Err("TypeError", "get_features_by_type:row_id_attribute"), <<>>)
    ELSE IF exclude # None /\ exclude[1] # "list"
    THEN FeaturesResult(Err("TypeError", "get_features_by_type:exclude"), <<>>)
    ELSE FeaturesResult(NoErr,
                        FeatureLoop(features, 1, 0,
                                    FeaturesToExclude(self, exclude, exclude_ignore_attribute,
                                                      exclude_row_id_attribute),
                                    data_type, <<>>))

----------------------------------------------------------------------------
(* The datasets explored: ARFF files as the decoder returns them, with the *)
(* server metadata of the dataset.                                         *)

\* bounds: the rows of a file and the dataset objects of the process
NRows == 2
NObjects == 2
NBuilders == 2

AttrNames == <<<<"a">>, <<"b">>, <<"c">>>>

Numeric == [tag |-> "NUMERIC", labels |-> <<>>]
Integer == [tag |-> "INTEGER", labels |-> <<>>]
String == [tag |-> "STRING", labels |-> <<>>]
Nominal(labels) == [tag |-> "NOMINAL", labels |-> labels]

Nominal3 == Nominal(<<<<"s">>, <<"t">>, <<"u">>>>)
NominalTF == Nominal(<<<<"t", "r", "u", "e">>, <<"F", "A", "L", "S", "E">>>>)
NominalFT == Nominal(<<<<"F", "a", "l", "s", "e">>, <<"T", "r", "u", "e">>>>)

\* the cell of row i (from 1), column j of a dense file; `missing` puts a
\* missing value in the last row of every column
DenseCell(type_, i, j, missing) ==
    IF missing /\ i = NRows THEN None
    ELSE CASE type_.tag = "NOMINAL" -> Num((i + j) % Len(type_.labels))
           [] type_.tag = "STRING" -> IF i = 1 THEN Str(<<"x", "y">>) ELSE Str(<<"7">>)
           [] OTHER -> Num(i + j)

DenseRows(types, missing) ==
    [i \in 1..NRows |-> [j \in 1..Len(types) |-> DenseCell(types[j], i, j, missing)]]

\* the COO lists of a sparse file that stores an entry in each row for each
\* of its first `stored` columns
CooData(types, stored) ==
    LET cell(k) == <<((k - 1) \div stored), ((k - 1) % stored)>>
    IN  [values |-> [k \in 1..(NRows * stored) |->
                        IF types[cell(k)[2] + 1].tag = "NOMINAL"
                        THEN Num((cell(k)[1] + cell(k)[2]) % Len(types[cell(k)[2] + 1].labels))
                        ELSE Num(cell(k)[1] + cell(k)[2] + 1)],
         rows |-> [k \in 1..(NRows * stored) |-> cell(k)[1]],
         cols |-> [k \in 1..(NRows * stored) |-> cell(k)[2]]]

Attributes(types) == [j \in 1..Len(types) |-> [name |-> AttrNames[j], type_ |-> types[j]]]

RawFile(format, types, data, size, dataset_id, row_id_attribute, ignore_attribute) ==
    [format |-> format, size |-> size, attributes |-> Attributes(types), data |-> data,
     dataset_id |-> dataset_id, row_id_attribute |-> row_id_attribute,
     ignore_attribute |-> ignore_attribute]

SmallSize == MaxFileBytes
BigSize == MaxFileBytes + 1

\* the blob a release before 0.9 left in the cache: the data as an ndarray
LegacyBlob(r) ==
    PickleDump(<<NdArray("float32",
                         [j \in 1..Len(r.attributes) |-> [i \in 1..Len(r.data) |-> r.data[i][j]]]),
                 [j \in 1..Len(r.attributes) |-> IsList(r.attributes[j].type_)],
                 [j \in 1..Len(r.attributes) |-> r.attributes[j].name]>>)

TypesNCS == <<Numeric, Nominal3, String>>
TypesBN == <<NominalTF, Numeric>>
TypesIBC == <<Integer, NominalFT, Nominal3>>
TypesNBC == <<Numeric, NominalTF, Nominal3>>

\* the files of the cache life cycle: dense and sparse, with and without a
\* string column, with boolean-looking labels in both orders, with and
\* without a server id, a sparse file that stores nothing in its last column
CacheDatasets ==
    {RawFile("arff", TypesNCS, DenseRows(TypesNCS, TRUE), SmallSize, id, Str(<<"a">>), None) :
        id \in {None, Num(1)}}
    \cup
    {RawFile("ARFF", TypesBN, DenseRows(TypesBN, FALSE), SmallSize, Num(1), None, None)}
    \cup
    {RawFile("sparse_arff", TypesIBC, CooData(TypesIBC, k), SmallSize, id, None,
             PyList(<<<<"c">>>>)) : k \in {Len(TypesIBC) - 1, Len(TypesIBC)}, id \in {None, Num(1)}}
    \cup
    {RawFile("Sparse_ARFF", TypesNCS, CooData(TypesNCS, Len(TypesNCS)), SmallSize, Num(1),
             None, None)}

\* the file holds a missing value that get_data can cast to int: a dense
\* file with a missing cell (a sparse file of these stores no missing value)
CastsNan(r) ==
    /\ FormatLower(r.format) = "arff"
    /\ \E i \in 1..Len(r.data) : \E j \in 1..Len(r.data[i]) : r.data[i][j] = None

\* an environment: the file, the interpreter's pointer width, the blob file
\* found in the cache directory when the process starts, and what the build
\* makes of a nan cast to int (either value where a nan can be cast; where
\* none can, the value is never read and one is listed)
Environment(r, b, blob) ==
    {<<r, b, blob, n>> : n \in IF CastsNan(r) THEN NanIntChoices ELSE {IntMin}}

CacheEnvironments ==
    UNION {Environment(r, 64, AbsentFile) : r \in CacheDatasets}
    \cup UNION {Environment([r EXCEPT !.size = BigSize], w, AbsentFile) :
                    r \in {q \in CacheDatasets : q.format = "ARFF"}, w \in {32, 64}}
    \cup UNION {Environment([r EXCEPT !.format = "csv"], 64, AbsentFile) :
                    r \in {q \in CacheDatasets : q.format = "ARFF"}}
    \cup UNION {Environment(r, 64, LegacyBlob(r)) :
                    r \in {q \in CacheDatasets : q.format = "ARFF"}}

\* the files get_data is explored on: the row id and the ignore attributes
\* absent, a string, a list, or naming no column of the file
DataMetadata ==
    {<<None, None>>, <<Str(<<"a">>), PyList(<<<<"c">>>>)>>,
     <<PyList(<<<<"a">>>>), Str(<<"c">>)>>, <<None, PyList(<<<<"z">>>>)>>}

SparseMetadata == {<<None, None>>, <<Str(<<"a">>), None>>, <<None, PyList(<<<<"c">>>>)>>}

DataDatasets ==
    {RawFile("arff", t, DenseRows(t, TRUE), SmallSize, Num(1), m[1], m[2]) :
        t \in {TypesNCS, TypesNBC}, m \in DataMetadata}
    \cup
    {RawFile("sparse_arff", TypesIBC, CooData(TypesIBC, k), SmallSize, Num(1), m[1], m[2]) :
        k \in {Len(TypesIBC) - 1, Len(TypesIBC)}, m \in SparseMetadata}

DataEnvironments == UNION {Environment(r, 64, AbsentFile) : r \in DataDatasets}

\* the files type inference is explored on: one nominal attribute whose
\* labels are up to three of these
InferLabels ==
    {<<"t", "r", "u", "e">>, <<"T", "R", "U", "E">>, <<"f", "a", "l", "s", "e">>,
     <<"F", "a", "l", "s", "e">>, <<"a">>}

MaxLabels == 3

InferTypes ==
    {Numeric, Integer, String}
    \cup {Nominal(l) : l \in UNION {[1..n -> InferLabels] : n \in 1..MaxLabels}}

InferEnvironments ==
    UNION {Environment(RawFile("arff", <<t>>, DenseRows(<<t>>, FALSE), SmallSize, Num(1),
                               None, None), 64, AbsentFile) : t \in InferTypes}

\* the files the feature index is explored on, and the features the server
\* describes for a file (lines 171-183: index from 0, name, data type)
FeatureTypes == {Numeric, Nominal3}

FeatureMetadata ==
    {<<None, None>>, <<Str(<<"a">>), None>>, <<None, PyList(<<<<"c">>>>)>>,
     <<Str(<<"b">>), Str(<<"a">>)>>, <<PyList(<<<<"a">>>>), None>>}

FeatureDatasets ==
    {RawFile("arff", t, DenseRows(t, FALSE), SmallSize, Num(1), m[1], m[2]) :
        t \in [1..Len(AttrNames) -> FeatureTypes] \cup {TypesNCS}, m \in FeatureMetadata}

FeatureEnvironments == UNION {Environment(r, 64, AbsentFile) : r \in FeatureDatasets}

DataTypeOf(type_) ==
    CASE type_.tag = "NOMINAL" -> "nominal"
      [] type_.tag = "STRING" -> "string"
      [] OTHER -> "numeric"

DescribedFeatures(r) ==
    [j \in 1..Len(r.attributes) |->
        OpenMLDataFeature(j - 1, r.attributes[j].name, DataTypeOf(r.attributes[j].type_))]

\* the columns the unpacker is explored on: a column of NRows cells, each a
\* code in or out of range, a numeral, a word or a missing marker, and a
\* list of labels
UnpackCells ==
    {Num(-1), Num(0), Num(1), Num(3), None, NaN, Str(<<"1">>), Str(<<"x">>)}

UnpackLabels == {<<<<"s">>>>, <<<<"s">>, <<"t">>>>, <<<<"s">>, <<"t">>, <<"u">>>>}

UnpackDatasets ==
    {RawFile("arff", <<Nominal(l)>>, [i \in 1..NRows |-> <<c[i]>>], SmallSize, Num(1),
             None, None) : c \in [1..NRows -> UnpackCells], l \in UnpackLabels}

UnpackEnvironments == UNION {Environment(r, 64, AbsentFile) : r \in UnpackDatasets}

\* the files the race of cache builders is explored on: a dense and a sparse
\* file that parse without error
RaceDatasets ==
    {RawFile("arff", TypesNBC, DenseRows(TypesNBC, FALSE), SmallSize, Num(1), None, None),
     RawFile("sparse_arff", TypesIBC, CooData(TypesIBC, Len(TypesIBC)), SmallSize, Num(1),
             None, None)}

RaceEnvironments == UNION {Environment(r, 64, AbsentFile) : r \in RaceDatasets}

----------------------------------------------------------------------------
(* The state machine *)

Objects == 1..NObjects

\* the other processes that build the cache of data_file, and where each is
\* in _create_pickle_in_cache: "idle" before the call, "parsed" at line 441,
\* "wrote_snapshot" between lines 445 and 446, "done" after the return,
\* "failed" after a raise
Builders == 1..NBuilders
BuilderAt(pc, cache_format) == [pc |-> pc, cache_format |-> cache_format]
IdleBuilder == BuilderAt("idle", "none")

\* a slot holding no object, and the object __init__ leaves (lines 130-191)
NoObject ==
    [exists |-> FALSE, dataset_id |-> None, cache_format |-> "feather",
     data_file |-> None, data_pickle_file |-> None, data_feather_file |-> None,
     row_id_attribute |-> None, ignore_attribute |-> None]

NewObject(r, cache_format, data_file) ==
    [exists |-> TRUE, dataset_id |-> r.dataset_id, cache_format |-> cache_format,
     data_file |-> data_file, data_pickle_file |-> None, data_feather_file |-> None,
     row_id_attribute |-> r.row_id_attribute,
     ignore_attribute |-> IF IsPyStr(r.ignore_attribute)
                          THEN PyList(<<r.ignore_attribute[2]>>)
                          ELSE r.ignore_attribute]

\* what is observed of a call of _create_pickle_in_cache and of lines 470-495
NoCreate == [called |-> FALSE, requested |-> "none", err |-> NoErr, parses |-> 0, wrote |-> {}]
CreateObs(c, requested) ==
    [called |-> TRUE, requested |-> requested, err |-> c.err, parses |-> c.parses,
     wrote |-> c.wrote]
NoLoad ==
    [called |-> FALSE, loaded |-> ParseFail(NoErr), parses |-> 0, source |-> "none",
     eof |-> FALSE]
LoadObs(l) ==
    [called |-> l.create.err = NoErr, loaded |-> l.loaded,
     parses |-> l.parses - l.create.parses, source |-> l.source, eof |-> l.eof]
NoArgs == <<>>
NoResult == GetDataFail(NoErr)

\* what is observed of an operation: the object and files before it, the
\* cache build and the load it made, and what it returned or raised; repeat
\* says that the operation before it was the same call, which returned prev
Observe(op, d, args, self, create, load, result, repeat, prev) ==
    [op |-> op, d |-> d, args |-> args,
     before |-> [self |-> self, feather |-> feather_file, pickle |-> pickle_file],
     create |-> create, load |-> load, result |-> result,
     repeat |-> repeat, prev |-> prev, inferred |-> <<>>]

InitWith(environments) ==
    /\ \E e \in environments :
            raw = e[1] /\ bits = e[2] /\ pickle_file = e[3] /\ nan_as_int = e[4]
    /\ feather_file = AbsentFile
    /\ ds = [d \in Objects |-> NoObject]
    /\ builders = [b \in Builders |-> IdleBuilder]
    /\ last = [op |-> "none", d |-> 0, args |-> NoArgs,
               before |-> [self |-> NoObject, feather |-> AbsentFile, pickle |-> AbsentFile],
               create |-> NoCreate, load |-> NoLoad, result |-> NoResult,
               repeat |-> FALSE, prev |-> NoResult, inferred |-> <<>>]

\* OpenMLDataset(..., cache_format=cache_format, data_file=data_file); a
\* dataset built without data_file is one the server knows (it has an id)
Construct(d, cache_format, with_file) ==
    /\ ~ds[d].exists
    /\ \A e \in Objects : e < d => ds[e].exists
    /\ with_file \/ raw.dataset_id # None
    /\ IF with_file
       THEN \E c \in {_create_pickle_in_cache(cache_format, feather_file, pickle_file, raw, bits)} :
                /\ feather_file' = c.feather
                /\ pickle_file' = c.pickle
                /\ ds' = IF c.err # NoErr THEN ds
                         ELSE [ds EXCEPT ![d] = WithPaths(NewObject(raw, cache_format, ArffPath),
                                                          c.cache_format)]
                /\ last' = Observe("construct", d, <<cache_format, with_file>>, ds[d],
                                   CreateObs(c, cache_format), NoLoad, GetDataFail(c.err),
                                   FALSE, NoResult)
       ELSE /\ UNCHANGED <<feather_file, pickle_file>>
            /\ ds' = [ds EXCEPT ![d] = NewObject(raw, cache_format, None)]
            /\ last' = Observe("construct", d, <<cache_format, with_file>>, ds[d],
                               NoCreate, NoLoad, NoResult, FALSE, NoResult)
    /\ UNCHANGED <<raw, bits, nan_as_int, builders>>

\* dataset.get_data(target, include_row_id, include_ignore_attribute, dataset_format)
GetData(d, target, include_row_id, include_ignore_attribute, dataset_format) ==
    /\ ds[d].exists
    /\ \E l \in {_load_data(ds[d], feather_file, pickle_file, raw, bits)} :
       \E result \in {get_data(l.self, l.loaded, target, include_row_id,
                               include_ignore_attribute, dataset_format, nan_as_int)} :
       \E args \in {<<target, include_row_id, include_ignore_attribute, dataset_format>>} :
       \E repeat \in {last.op = "get_data" /\ last.d = d /\ last.args = args} :
            /\ feather_file' = l.create.feather
            /\ pickle_file' = l.create.pickle
            /\ ds' = [ds EXCEPT ![d] = l.self]
            /\ last' = Observe("get_data", d, args, ds[d],
                               IF ds[d].data_pickle_file = None
                               THEN CreateObs(l.create, ds[d].cache_format) ELSE NoCreate,
                               LoadObs(l), result, repeat,
                               IF repeat THEN last.result ELSE NoResult)
    /\ UNCHANGED <<raw, bits, nan_as_int, builders>>

\* the loop of lines 338-380 over the attributes of the decoded file
InferAttributes ==
    /\ last.op # "infer"
    /\ last' = [Observe("infer", 0, NoArgs, NoObject, NoCreate, NoLoad, NoResult,
                        FALSE, NoResult)
                EXCEPT !.inferred = [j \in 1..Len(raw.attributes) |->
                                        InferDtype(raw.attributes[j].type_)]]
    /\ UNCHANGED <<raw, bits, feather_file, pickle_file, nan_as_int, ds, builders>>

\* the environment: a cache file is cut to zero length, or deleted
TruncatePickle ==
    /\ pickle_file.state = "written"
    /\ pickle_file' = EmptyFile
    /\ last' = Observe("truncate", 0, NoArgs, NoObject, NoCreate, NoLoad,
                       NoResult, FALSE, NoResult)
    /\ UNCHANGED <<raw, bits, feather_file, nan_as_int, ds, builders>>

DeletePickle ==
    /\ Exists(pickle_file)
    /\ pickle_file' = AbsentFile
    /\ last' = Observe("delete_pickle", 0, NoArgs, NoObject, NoCreate, NoLoad,
                       NoResult, FALSE, NoResult)
    /\ UNCHANGED <<raw, bits, feather_file, nan_as_int, ds, builders>>

DeleteFeather ==
    /\ Exists(feather_file)
    /\ feather_file' = AbsentFile
    /\ last' = Observe("delete_feather", 0, NoArgs, NoObject, NoCreate, NoLoad,
                       NoResult, FALSE, NoResult)
    /\ UNCHANGED <<raw, bits, pickle_file, nan_as_int, ds, builders>>

\* dataset.get_features_by_type(data_type, exclude, exclude_ignore_attribute,
\*                              exclude_row_id_attribute)
GetFeaturesByType(d, data_type, exclude, exclude_ignore_attribute, exclude_row_id_attribute) ==
    /\ ds[d].exists
    /\ \E result \in {get_features_by_type(ds[d], DescribedFeatures(raw), data_type, exclude,
                                           exclude_ignore_attribute,
                                           exclude_row_id_attribute)} :
            last' = [Observe("get_features_by_type", d,
                             <<data_type, exclude, exclude_ignore_attribute,
                               exclude_row_id_attribute>>,
                             ds[d], NoCreate, NoLoad, NoResult, FALSE, NoResult)
                     EXCEPT !.result = result]
    /\ UNCHANGED <<raw, bits, feather_file, pickle_file, nan_as_int, ds, builders>>

\* OpenMLDataset._unpack_categories(series, categories) on the first column
\* of the file and the labels of its attribute
UnpackCategories ==
    /\ last.op # "_unpack_categories"
    /\ \E u \in {_unpack_categories(raw.attributes[1].name,
                                    [i \in 1..Len(raw.data) |-> raw.data[i][1]],
                                    raw.attributes[1].type_.labels)} :
            last' = [Observe("_unpack_categories", 0, NoArgs, NoObject, NoCreate, NoLoad,
                             NoResult, FALSE, NoResult)
                     EXCEPT !.result = u]
    /\ UNCHANGED <<raw, bits, feather_file, pickle_file, nan_as_int, ds, builders>>

\* another process enters _create_pickle_in_cache (lines 407-441): it checks
\* the cache files and, unless it returns or raises, parses data_file
BuilderCheck(b, cache_format) ==
    /\ builders[b].pc = "idle"
    /\ \E chk \in {CheckCache(cache_format, feather_file, pickle_file)} :
       \E p \in {_parse_data_from_arff(raw, bits)} :
            builders' = [builders EXCEPT ![b] =
                            BuilderAt(CASE chk.do = "return" -> "done"
                                        [] chk.do = "raise" -> "failed"
                                        [] OTHER -> IF p.err = NoErr THEN "parsed" ELSE "failed",
                                      cache_format)]
    /\ UNCHANGED <<raw, bits, feather_file, pickle_file, nan_as_int, ds, last>>

\* line 445: the process writes the snapshot file
BuilderWriteSnapshot(b) ==
    /\ builders[b].pc = "parsed"
    /\ \E w \in {WriteCache(builders[b].cache_format, feather_file, pickle_file,
                            _parse_data_from_arff(raw, bits))} :
            /\ "feather" \in w.wrote
            /\ feather_file' = w.feather
    /\ builders' = [builders EXCEPT ![b].pc = "wrote_snapshot"]
    /\ UNCHANGED <<raw, bits, pickle_file, nan_as_int, ds, last>>

\* lines 446-447 and 451-452: the process writes the metadata or blob file
BuilderWriteMetadata(b) ==
    /\ builders[b].pc \in {"parsed", "wrote_snapshot"}
    /\ \E w \in {WriteCache(builders[b].cache_format, feather_file, pickle_file,
                            _parse_data_from_arff(raw, bits))} :
            /\ builders[b].pc = "parsed" => "feather" \notin w.wrote
            /\ pickle_file' = w.pickle
    /\ builders' = [builders EXCEPT ![b].pc = "done"]
    /\ UNCHANGED <<raw, bits, feather_file, nan_as_int, ds, last>>

CacheFormats == {"feather", "pickle"}

\* the get_data calls of the cache life cycle (target, dataset_format), and
\* the output formats
CacheCalls == {<<None, "dataframe">>, <<Str(<<"b">>), "array">>}
CacheOutputs == {"dataframe", "array"}

\* the cache life cycle: objects are built on one raw file, asked for their
\* data, and the cache files are truncated or deleted under them
Init == InitWith(CacheEnvironments)

Next ==
    \/ \E d \in Objects, cf \in CacheFormats, f \in BOOLEAN : Construct(d, cf, f)
    \/ \E d \in Objects, c \in CacheCalls : GetData(d, c[1], FALSE, FALSE, c[2])
    \/ TruncatePickle
    \/ DeletePickle
    \/ DeleteFeather

Spec == Init /\ [][Next]_vars

\* get_data of one object under every choice of its arguments
DataTargets ==
    {None, Str(<<"b">>), Str(<<"a", ",", "b">>), Str(<<"b", ",", "c">>),
     PyList(<<<<"b">>, <<"c">>>>), Str(<<"z">>)}

DataInit == InitWith(DataEnvironments)

DataNext ==
    \/ \E cf \in CacheFormats : Construct(1, cf, TRUE)
    \/ \E t \in DataTargets, rid \in BOOLEAN, ign \in BOOLEAN, o \in CacheOutputs :
            GetData(1, t, rid, ign, o)

DataSpec == DataInit /\ [][DataNext]_vars

\* the feature index: an object is built from the server's description and
\* asked for the indices of its features of a type
FeatureDataTypes == LEGAL_DATA_TYPES \cup {"integer"}

FeatureExcludes ==
    {None, PyList(<<>>), PyList(<<Num(0)>>), PyList(<<Num(1)>>), PyList(<<Num(0), Num(2)>>),
     PyList(<<Str(<<"b">>)>>), Str(<<"a">>)}

FeatureInit == InitWith(FeatureEnvironments)

FeatureNext ==
    \/ Construct(1, "pickle", FALSE)
    \/ \E t \in FeatureDataTypes, e \in FeatureExcludes, ign \in BOOLEAN, rid \in BOOLEAN :
            GetFeaturesByType(1, t, e, ign, rid)

FeatureSpec == FeatureInit /\ [][FeatureNext]_vars

\* the unpacker over every explored column and label list
UnpackInit == InitWith(UnpackEnvironments)

UnpackNext == UnpackCategories

UnpackSpec == UnpackInit /\ [][UnpackNext]_vars

\* the race: processes build the cache of one data_file, each of their file
\* writes a step, while this process constructs a dataset on the file
\* (_create_pickle_in_cache) and loads its data
RaceInit == InitWith(RaceEnvironments)

RaceNext ==
    \/ \E b \in Builders, cf \in CacheFormats : BuilderCheck(b, cf)
    \/ \E b \in Builders : BuilderWriteSnapshot(b)
    \/ \E b \in Builders : BuilderWriteMetadata(b)
    \/ \E cf \in CacheFormats : Construct(1, cf, TRUE)
    \/ \E c \in CacheCalls : GetData(1, c[1], FALSE, FALSE, c[2])

RaceSpec == RaceInit /\ [][RaceNext]_vars

\* type inference over every explored attribute type
InferInit == InitWith(InferEnvironments)

InferNext == InferAttributes

InferSpec == InferInit /\ [][InferNext]_vars

----------------------------------------------------------------------------
(* Properties *)

\* what the observed operation was called with
GetDataCalled == last.op = "get_data"
Returned == last.result.err = NoErr
CacheUnchanged == feather_file = last.before.feather /\ pickle_file = last.before.pickle

\* the number of calls of the raw-file parser the observed operation made
Parses == last.create.parses + last.load.parses

\* the names a str or a list of str holds
NamesOf(v) == IF IsPyStr(v) THEN {v[2]} ELSE SeqToSet(v[2])

\* the exclusion set of the observed get_data call
Excluded ==
    (IF last.args[2] \/ ds[last.d].row_id_attribute = None
     THEN {} ELSE NamesOf(ds[last.d].row_id_attribute))
    \cup
    (IF last.args[3] \/ ds[last.d].ignore_attribute = None
     THEN {} ELSE NamesOf(ds[last.d].ignore_attribute))

\* the cached names that remain after exclusion, in their cached order
Remaining ==
    LET Kept(n) == n \notin Excluded
    IN  SelectSeq(last.load.loaded.attribute_names, Kept)

\* the names the target argument holds, and the remaining names without them
TargetNames == IF last.args[1] = None THEN {} ELSE SeqToSet(TargetList(last.args[1]))

Matched == {k \in 1..Len(Remaining) : Remaining[k] \in TargetNames}

Features ==
    LET NotTarget(n) == n \notin TargetNames
    IN  SelectSeq(Remaining, NotTarget)

\* the cached categorical flag of the column called name
FlagOf(name) ==
    LET cached == last.load.loaded.attribute_names
    IN  last.load.loaded.categorical[CHOOSE j \in 1..Len(cached) : cached[j] = name]

\* the number of columns of a returned X, and the dtype of a returned y
NCols(X) ==
    CASE X.kind \in {"dataframe", "ndarray"} -> Len(X.columns)
      [] X.kind = "csr" -> X.shape[2]
      [] X.kind = "sparsedf" -> X.matrix.shape[2]

YDtype(y) ==
    CASE y.kind = "ndarray1" -> y.dtype
      [] y.kind = "series" -> IF y.column.category THEN "category" ELSE "as stored"
      [] OTHER -> "none"

\* the cache files hold what a build for the requested format leaves
ReadableCache(requested, feather, pickle) ==
    IF requested = "feather"
    THEN feather.state = "written" /\ pickle.state = "written" /\ Len(pickle.content) = 2
    ELSE pickle.state = "written" /\ Len(pickle.content) = 3 /\ IsUpToDate(pickle.content[1])

\* the cache files are an incomplete pair, or were written for the other format
MismatchedPair(requested, feather, pickle) ==
    \/ requested = "feather" /\ Exists(feather) /\ ~Exists(pickle)
    \/ requested = "feather" /\ ~Exists(feather) /\ Exists(pickle)
    \/ requested = "feather" /\ Exists(feather) /\ pickle.state = "written"
          /\ Len(pickle.content) = 3
    \/ requested = "pickle" /\ pickle.state = "written" /\ Len(pickle.content) = 2

SparseWithString(r) ==
    /\ FormatLower(r.format) = "sparse_arff"
    /\ \E j \in 1..Len(r.attributes) : r.attributes[j].type_.tag = "STRING"

\* the two labels of a nominal type are 'true' and 'false' in some case and order
BooleanLabels(type_) ==
    /\ IsList(type_)
    /\ Len(type_.labels) = 2
    /\ {Lower(type_.labels[1]), Lower(type_.labels[2])}
          = {<<"t", "r", "u", "e">>, <<"f", "a", "l", "s", "e">>}

C2_AsStated ==
    (last.repeat /\ last.prev.err = NoErr /\ Returned)
        => (last.result = last.prev /\ Parses = 0)

\* C2: a get_data call that repeats the call before it returns the same
\* result and does not build the cache; it calls the raw-file parser only
\* when reading the cache files ends in end-of-data, and then once.
C2_Idempotent ==
    (last.repeat /\ last.prev.err = NoErr /\ Returned)
        => /\ last.result = last.prev
           /\ ~last.create.called
           /\ Parses = IF last.load.eof THEN 1 ELSE 0

\* C2 witness: a repeated call on a truncated cache file, which parsed again
C2_Witness ==
    /\ last.repeat /\ last.prev.err = NoErr /\ Returned
    /\ last.load.eof
    /\ Parses = 1

\* C3: a cache build that finds a readable snapshot pair (snapshot requested)
\* or a modern blob (blob requested) on disk returns without calling the
\* raw-file parser and without writing a file.
C3_CacheReuse ==
    (last.create.called
        /\ ReadableCache(last.create.requested, last.before.feather, last.before.pickle))
        => (last.create.err = NoErr /\ last.create.parses = 0 /\ last.create.wrote = {})

\* C4: a get_data call whose read of the cache files ends in end-of-data
\* loads what a direct parse of the raw file gives, calls the parser once,
\* and leaves both cache files as they were.
C4_CorruptionRecovery ==
    (GetDataCalled /\ last.load.eof)
        => /\ last.load.loaded.err = NoErr
           /\ last.load.loaded = _parse_data_from_arff(raw, bits)
           /\ last.load.parses = 1
           /\ CacheUnchanged

\* C5: a cache build that finds an incomplete pair, or a metadata/blob file
\* written for the other cache format, raises no error.
C5_PairInvariant ==
    (last.create.called
        /\ MismatchedPair(last.create.requested, last.before.feather, last.before.pickle))
        => last.create.err = NoErr

\* C6: the attribute names get_data returns without a target are the cached
\* names outside the exclusion set, in their cached order, and each entry of
\* the categorical mask is the cached flag of the column of that name.
C6_Exclusion ==
    (GetDataCalled /\ Returned /\ last.args[1] = None)
        => /\ last.result.attribute_names = Remaining
           /\ Len(last.result.categorical) = Len(Remaining)
           /\ \A k \in 1..Len(Remaining) : last.result.categorical[k] = FlagOf(Remaining[k])

\* C6 witness: the row id is asked for and kept, the ignored column is dropped
C6_Witness ==
    /\ GetDataCalled /\ Returned /\ last.args[1] = None
    /\ last.args[2] /\ ~last.args[3]
    /\ ds[last.d].row_id_attribute # None
    /\ Excluded # {}
    /\ Len(Remaining) < Len(last.load.loaded.attribute_names)
    /\ \E k \in 1..Len(Remaining) : Remaining[k] \in NamesOf(ds[last.d].row_id_attribute)

\* what C7 says of X, the mask and the names: the remaining columns without
\* the target, in order, with a mask entry and a name for each column of X
SplitShape ==
    /\ last.result.attribute_names = Features
    /\ Len(last.result.categorical) = Len(Features)
    /\ \A k \in 1..Len(Features) : last.result.categorical[k] = FlagOf(Features[k])
    /\ NCols(last.result.X) = Len(Features)
    /\ last.result.X.kind = "dataframe"
          => [j \in 1..Len(Features) |-> last.result.X.columns[j].name] = Features

TargetDtype == IF FlagOf(Remaining[CHOOSE k \in Matched : TRUE]) THEN "int" ELSE "float"

OneTargetReturned ==
    GetDataCalled /\ Returned /\ last.args[1] # None /\ Cardinality(Matched) = 1

C8_MultiTarget ==
    (GetDataCalled /\ last.load.loaded.err = NoErr /\ Cardinality(Matched) > 1)
        => last.result = GetDataFail(Err("NotImplementedError", "get_data:targets"))

\* C9: a cache build that parses a sparse file with a string attribute fails
\* with the ValueError of that check, and leaves both cache files as they were.
C9_SparseRejection ==
    (last.create.parses > 0 /\ SparseWithString(raw) /\ _get_arff(raw, bits).err = NoErr)
        => /\ last.create.err = Err("ValueError", "_parse_data_from_arff:string_in_sparse")
           /\ last.create.wrote = {}
           /\ CacheUnchanged

\* C9 witness: the first load of an object built without its data file
C9_Witness ==
    /\ GetDataCalled
    /\ last.create.called
    /\ last.create.err.at = "_parse_data_from_arff:string_in_sparse"
    /\ last.result.err.exc = "ValueError"

\* C10 as stated: two labels that are 'true' and 'false' in some case give
\* dtype boolean with the label list [False, True], in either declared order.
C10_AsStated ==
    last.op = "infer"
        => \A j \in 1..Len(raw.attributes) :
              IsList(raw.attributes[j].type_)
                 => IF BooleanLabels(raw.attributes[j].type_)
                    THEN /\ last.inferred[j].dtype = "boolean"
                         /\ last.inferred[j].categories = <<Bool(FALSE), Bool(TRUE)>>
                    ELSE last.inferred[j].dtype = "categorical"

\* C10: two labels that are 'true' and 'false' in some case give dtype
\* boolean with the label list mapped by position (the entry of a 'true'
\* label is True), so that [False, True] is the list only when 'false' is
\* declared first; every other label list gives dtype categorical with the
\* declared labels.
C10_BooleanCollapse ==
    last.op = "infer"
        => \A j \in 1..Len(raw.attributes) :
              IsList(raw.attributes[j].type_)
                 => /\ last.inferred[j].categorical
                    /\ IF BooleanLabels(raw.attributes[j].type_)
                       THEN /\ last.inferred[j].dtype = "boolean"
                            /\ last.inferred[j].categories
                                 = [i \in 1..2 |->
                                      Bool(Lower(raw.attributes[j].type_.labels[i])
                                              = <<"t", "r", "u", "e">>)]
                       ELSE /\ last.inferred[j].dtype = "categorical"
                            /\ last.inferred[j].categories
                                 = [i \in 1..Len(raw.attributes[j].type_.labels) |->
                                      Str(raw.attributes[j].type_.labels[i])]

\* C10 witness: 'true' declared before 'false' gives the list [True, False]
C10_Witness ==
    /\ last.op = "infer"
    /\ BooleanLabels(raw.attributes[1].type_)
    /\ last.inferred[1].dtype = "boolean"
    /\ last.inferred[1].categories = <<Bool(TRUE), Bool(FALSE)>>

\* the triple a direct parse of the raw file gives
Parsed == _parse_data_from_arff(raw, bits)

\* the observed operation built the cache: _create_pickle_in_cache returned
Built == last.create.called /\ last.create.err = NoErr

\* C11: after a cache build the object's cache_format is 'feather' exactly
\* when 'feather' was requested and the parsed table is dense; for a sparse
\* table it is 'pickle', and a build that parsed it wrote no snapshot file and one blob holding
\* (table, categorical flags, attribute names) is written, and the load that
\* follows in the same call reads that blob; an object whose cache_format is
\* 'pickle' keeps it.
C11_ForcedBlob ==
    /\ (Built /\ Parsed.err = NoErr)
          => /\ (ds[last.d].cache_format = "feather")
                    <=> (last.create.requested = "feather" /\ ~IsSparse(Parsed.X))
             /\ (IsSparse(Parsed.X) /\ last.create.parses > 0)
                    => /\ last.create.wrote = {"pickle"}
                       /\ feather_file = last.before.feather
                       /\ pickle_file
                             = PickleDump(<<Parsed.X, Parsed.categorical, Parsed.attribute_names>>)
                       /\ GetDataCalled
                             => (last.load.source = "cache" /\ last.load.loaded = Parsed)
    /\ (GetDataCalled /\ last.before.self.cache_format = "pickle")
          => ds[last.d].cache_format = "pickle"

\* C11 witness: the first load of a sparse file by an object that asked for
\* 'feather' wrote the blob and read it back
C11_Witness ==
    /\ GetDataCalled /\ Built
    /\ last.create.requested = "feather"
    /\ IsSparse(Parsed.X)
    /\ last.create.wrote = {"pickle"}
    /\ ds[last.d].cache_format = "pickle"
    /\ last.load.source = "cache"

\* the object had its cache paths before the observed call, and a cache
\* file its cache_format reads was absent
PathsSet == last.before.self.data_pickle_file # None

ExpectedFileAbsent ==
    \/ ~Exists(last.before.pickle)
    \/ last.before.self.cache_format = "feather" /\ ~Exists(last.before.feather)

\* C12: get_data on an object that has its cache paths, when a cache file it
\* reads is absent, raises the ValueError of line 492, does not call the
\* raw-file parser and leaves the cache files as they were.
C12_CacheMissing ==
    (GetDataCalled /\ PathsSet /\ ExpectedFileAbsent)
        => /\ last.result = GetDataFail(Err("ValueError", "_load_data:cannot_find_pickle"))
           /\ Parses = 0
           /\ ~last.create.called
           /\ CacheUnchanged

\* C12 witness: the blob file was deleted after the build
C12_Witness ==
    /\ GetDataCalled /\ PathsSet
    /\ last.before.self.cache_format = "pickle"
    /\ ~Exists(last.before.pickle)
    /\ last.result.err.exc = "ValueError"
    /\ ~Exists(pickle_file)

\* a step of the program (not of the environment), read off the next state
ProgramStep == last'.op \in {"construct", "get_data"}
ConstructStep == last'.op = "construct"
FilesKept ==
    /\ Exists(feather_file) => Exists(feather_file')
    /\ Exists(pickle_file) => Exists(pickle_file')
FilesSame == feather_file' = feather_file /\ pickle_file' = pickle_file

\* C13 as stated: no constructor call parses the raw file or writes a cache
\* file, and no step of the program removes a cache file.
C13_AsStated ==
    [][/\ ConstructStep
            => (FilesSame /\ last'.create.parses = 0 /\ ~last'.create.called)
       /\ ProgramStep => FilesKept]_vars

\* C13: a constructor call without a raw file path neither parses nor writes;
\* a constructor call with a raw file path runs _create_pickle_in_cache
\* (lines 187-188), which parses the raw file unless it finds a cache it
\* accepts and writes cache files only after a parse; a get_data call parses
\* and writes through _load_data only; no step of the program removes a
\* cache file.
C13_Lifecycle ==
    [][/\ (ConstructStep /\ ~last'.args[2])
            => (FilesSame /\ ~last'.create.called /\ last'.create.parses = 0)
       /\ (ConstructStep /\ last'.args[2])
            => /\ last'.create.called
               /\ ~FilesSame => (last'.create.parses = 1 /\ last'.create.err = NoErr)
               /\ (~Exists(pickle_file) /\ ~Exists(feather_file))
                     => last'.create.parses = 1
       /\ (ProgramStep /\ ~ConstructStep /\ ~FilesSame)
            => (last'.create.parses + last'.load.parses > 0)
       /\ ProgramStep => FilesKept]_vars

\* C13 witness: a constructor call with a raw file path parsed it and wrote
\* the first cache file
C13_Witness ==
    /\ last.op = "construct"
    /\ last.args[2]
    /\ last.create.parses = 1
    /\ ~Exists(last.before.pickle)
    /\ Exists(pickle_file)

\* the observed get_data call read a dense table and asked for no target or
\* for one that names exactly one remaining column
DenseCall ==
    /\ GetDataCalled
    /\ last.load.loaded.err = NoErr
    /\ ~IsSparse(last.load.loaded.X)
    /\ (last.args[1] = None \/ Cardinality(Matched) = 1)

\* the attribute called name is declared STRING in the raw file
IsStringAttribute(name) ==
    \E j \in 1..Len(raw.attributes) :
        raw.attributes[j].name = name /\ raw.attributes[j].type_.tag = "STRING"

StringRemains == \E k \in 1..Len(Remaining) : IsStringAttribute(Remaining[k])

\* the cached column called name, and its category codes with nan for a
\* value that is no category
CachedColumn(name) ==
    LET columns == last.load.loaded.X.columns
    IN  columns[CHOOSE j \in 1..Len(columns) : columns[j].name = name]

CodesOrNaN(col) ==
    [i \in 1..Len(col.values) |->
        IF \E c \in 1..Len(col.categories) : col.categories[c] = col.values[i]
        THEN Num((CHOOSE c \in 1..Len(col.categories) : col.categories[c] = col.values[i]) - 1)
        ELSE NaN]

CategoricalAsCodes ==
    /\ \A k \in 1..Len(Features) :
            FlagOf(Features[k])
                => last.result.X.columns[k] = CodesOrNaN(CachedColumn(Features[k]))
    /\ \A k \in Matched :
            FlagOf(Remaining[k])
                => last.result.y.values = CodesOrNaN(CachedColumn(Remaining[k]))

\* C14: for a dense table, get_data with format 'array' fails with
\* PyOpenMLError exactly when a STRING column remains after exclusion (among
\* the features or as the target); with format 'dataframe' it never raises
\* that error; when the 'array' call returns, every categorical column of X
\* and a categorical y hold the category codes, with nan for a missing value.
C14_ArrayConversion ==
    DenseCall
        => /\ last.args[4] = "array"
                => ((last.result.err = PyOpenMLError) <=> StringRemains)
           /\ last.args[4] = "dataframe" => last.result.err # PyOpenMLError
           /\ (last.args[4] = "array" /\ Returned) => CategoricalAsCodes

\* the observed get_features_by_type call, its arguments, and the features
\* of the object
FeaturesCalled == last.op = "get_features_by_type"
IndexExclude ==
    last.args[2] = None
    \/ (last.args[2][1] = "list" /\ \A k \in 1..Len(last.args[2][2]) : IsNum(last.args[2][2][k]))

\* the indices of the excluded features: those listed in exclude, those of
\* the ignore attributes and that of the row id attribute, when asked for
ExcludedIndices ==
    LET features == DescribedFeatures(raw)
        IndexOf(names) == {features[j].index : j \in {i \in 1..Len(features) :
                                                        features[i].name \in names}}
    IN  (IF last.args[2] = None THEN {} ELSE {v[2] : v \in SeqToSet(last.args[2][2])})
        \cup (IF last.args[3] /\ ds[last.d].ignore_attribute # None
              THEN IndexOf(NamesOf(ds[last.d].ignore_attribute)) ELSE {})
        \cup (IF last.args[4] /\ ds[last.d].row_id_attribute # None
              THEN IndexOf(NamesOf(ds[last.d].row_id_attribute)) ELSE {})

\* the position each feature of the asked type that is not excluded has
\* once the excluded features are removed
ShiftedIndices ==
    LET features == DescribedFeatures(raw)
    IN  {features[j].index - Cardinality({e \in ExcludedIndices : e < features[j].index}) :
            j \in {i \in 1..Len(features) : /\ features[i].data_type = last.args[1]
                                            /\ features[i].index \notin ExcludedIndices}}

Increasing(seq) == \A k \in 1..(Len(seq) - 1) : seq[k] < seq[k + 1]

\* C15: a get_features_by_type call given a list of indices to exclude (or
\* none) returns, in increasing order, the shifted position of each feature
\* of the asked type that is not excluded, where the excluded features are
\* the ignore attributes, the row id attribute and the listed indices.
C15_FeatureIndices ==
    (FeaturesCalled /\ IndexExclude /\ last.result.err = NoErr)
        => /\ SeqToSet(last.result.indices) = ShiftedIndices
           /\ Len(last.result.indices) = Cardinality(ShiftedIndices)
           /\ Increasing(last.result.indices)

\* the column and the labels the observed _unpack_categories call was given
Unpacked == last.op = "_unpack_categories"
UnpackSeries == [i \in 1..Len(raw.data) |-> raw.data[i][1]]
UnpackList == raw.attributes[1].type_.labels

\* the code x maps: it is an integer, or a numeral, that is an index into
\* the list
MapsTo(x, k) ==
    /\ k \in 0..(Len(UnpackList) - 1)
    /\ \/ x = Num(k)
       \/ (x[1] = "str" /\ IsNumeral(x[2]) /\ NumeralVal(x[2]) = k)

\* C16: _unpack_categories never fails; it returns a column of the length of
\* the series, in which a code that is an index into the list is replaced by
\* the label at that index and every other code (no number, a missing
\* marker, negative, or not below the number of categories) is nan; the
\* categories are the list, in its order.
C16_Unpacking ==
    Unpacked
        => /\ last.result.err = NoErr
           /\ Len(last.result.col.values) = Len(UnpackSeries)
           /\ \A i \in 1..Len(UnpackSeries) :
                 IF \E k \in 0..(Len(UnpackList) - 1) : MapsTo(UnpackSeries[i], k)
                 THEN \E k \in 0..(Len(UnpackList) - 1) :
                         /\ MapsTo(UnpackSeries[i], k)
                         /\ last.result.col.values[i] = UnpackList[k + 1]
                 ELSE last.result.col.values[i] = NaN
           /\ last.result.col.categories = UnpackList
           /\ last.result.col.ordered

\* a builder process has entered _create_pickle_in_cache
BuildersRacing == \E b \in Builders : builders[b].pc # "idle"

\* C17: while other processes build the cache of the same file, every
\* _create_pickle_in_cache call of this process returns, and every load of
\* its get_data calls gives the table, read from the cache or parsed again
\* from the raw file.
C17_RacingBuilders ==
    (BuildersRacing /\ last.op \in {"construct", "get_data"})
        => /\ last.create.err = NoErr
           /\ GetDataCalled
                 => /\ last.load.loaded.err = NoErr
                    /\ last.load.source \in {"cache", "arff"}

\* the kinds of the error taxonomy, as the exceptions dataset.py raises for
\* them: FormatError, ResourceError, CacheMissing, TypeMismatchError and
\* NotImplementedError
Taxonomy ==
    {Err("ValueError", "_get_arff:unknown_format"),
     Err("ValueError", "_parse_data_from_arff:string_in_sparse"),
     Err("ValueError", "_parse_data_from_arff:categorical_not_numeric"),
     Err("NotImplementedError", "_get_arff:too_big"),
     Err("ValueError", "_load_data:cannot_find_pickle"),
     PyOpenMLError,
     Err("NotImplementedError", "get_data:targets")}

\* C18: every get_data call that fails raises an error of the taxonomy; so
\* does a call whose target names no column that remains after exclusion.
C18_TaxonomyClosure ==
    (GetDataCalled /\ ~Returned) => last.result.err \in Taxonomy

\* C19: the table every get_data call loads has as many columns as the raw
\* file has attributes, as many as the loaded categorical mask and the loaded
\* name list are long; and the X of every call that returns has as many
\* columns as the returned mask and the returned name list are long.  This
\* includes a sparse file that stores no entry for its last attributes.
C19_Lockstep ==
    (GetDataCalled /\ last.load.loaded.err = NoErr)
        => /\ NCols(last.load.loaded.X) = Len(raw.attributes)
           /\ Len(last.load.loaded.categorical) = Len(raw.attributes)
           /\ Len(last.load.loaded.attribute_names) = Len(raw.attributes)
           /\ Returned
                 => /\ NCols(last.result.X) = Len(last.result.categorical)
                    /\ NCols(last.result.X) = Len(last.result.attribute_names)

====
